---- MODULE Spec2Model ----
(***************************************************************************)
(* Model of pi_ai's streaming assembler, AssistantMessageEventStream       *)
(* (src/pi_ai/event_stream.py): the reducer that consumes the wire events  *)
(* of an adapter and builds the final assistant message.                   *)
(*                                                                         *)
(* Encoding of Python values                                               *)
(*   str / None      [t |-> "str", v |-> s]   /  [t |-> "none", v |-> ""]  *)
(*   int / None      [t |-> "int", v |-> n]   /  [t |-> "none", v |-> 0]   *)
(*   text            TLA+ strings, joined with \o as Python's +=           *)
(*   argument JSON   sequences of JSON lexemes ("{", "}", ",", " ", "1"    *)
(*                   and the members "a:1" and "b:2"), joined with \o      *)
(*   float           a natural number of hundredths                        *)
(*   object identity the number of the _assemble_final call that built the *)
(*                   message (field obj; 0 is None)                        *)
(* The message's api, provider, model and timestamp are copied from the    *)
(* Model and the clock and read by no operation; they are left out.        *)
(***************************************************************************)
EXTENDS Integers, Sequences, FiniteSets, TLC

\* The number of events one adapter produces before its sequence ends.
MaxEvents == 4

-----------------------------------------------------------------------------
(* Python values *)

PyStr(s) == [t |-> "str", v |-> s]

PyNone == [t |-> "none", v |-> ""]

PyInt(n) == [t |-> "int", v |-> n]

PyNoInt == [t |-> "none", v |-> 0]

PyFloat(c) == [t |-> "float", v |-> c]

PyFrag(s) == [t |-> "str", v |-> s]

PyNoFrag == [t |-> "none", v |-> <<>>]

\* isinstance(x, str)
IsStr(x) == x.t = "str"

\* isinstance(x, int)
IsInt(x) == x.t = "int"

\* isinstance(x, (int, float))
IsNumber(x) == x.t \in {"int", "float"}

\* float(x) of an int or a float, in hundredths
ToFloat(x) == IF x.t = "int" THEN 100 * x.v ELSE x.v

-----------------------------------------------------------------------------
(* Usage *)

TokenKeys == {"input", "output", "cache_read", "cache_write", "total_tokens"}

CostKeys == {"input", "output", "cache_read", "cache_write", "total"}

\* _zero_usage(): every counter 0, every cost 0.0
ZeroUsage == [tok |-> [k \in TokenKeys |-> 0], cost |-> [k \in CostKeys |-> 0]]

\* The payload of a usage event: usage.get(k) is PyNoInt for a key the dict
\* does not hold; isdict / costdict say whether the value is a dict at all.
UsagePayload(isdict, tok, costdict, cost) ==
    [isdict |-> isdict, tok |-> tok, costdict |-> costdict, cost |-> cost]

NoTok == [k \in TokenKeys |-> PyNoInt]

NoCost == [k \in CostKeys |-> PyNoInt]

NoUsage == UsagePayload(FALSE, NoTok, FALSE, NoCost)

MergeUsageResetting(u, p) ==
    IF ~p.isdict THEN u
    ELSE [tok  |-> [k \in TokenKeys |->
                      IF IsInt(p.tok[k]) THEN p.tok[k].v ELSE 0],
          cost |-> [k \in CostKeys |->
                      IF p.costdict /\ IsNumber(p.cost[k])
                      THEN ToFloat(p.cost[k]) ELSE 0]]

\* The "usage" case of __anext__: field-wise merge of a payload into _usage.
MergeUsage(u, p) ==
    IF ~p.isdict THEN u
    ELSE [tok  |-> [k \in TokenKeys |->
                      IF IsInt(p.tok[k]) THEN p.tok[k].v ELSE u.tok[k]],
          cost |-> [k \in CostKeys |->
                      IF p.costdict /\ IsNumber(p.cost[k])
                      THEN ToFloat(p.cost[k]) ELSE u.cost[k]]]

-----------------------------------------------------------------------------
(* Wire events *)

Event(type, delta, index, id, name, args, reason, usage, error) ==
    [type |-> type, delta |-> delta, index |-> index, id |-> id, name |-> name,
     arguments_delta |-> args, reason |-> reason, usage |-> usage,
     error |-> error]

StartEv == Event("start", PyNone, PyNoInt, PyNone, PyNone, PyNoFrag, PyNone, NoUsage, PyNone)

TextEv(delta) == Event("text_delta", delta, PyNoInt, PyNone, PyNone, PyNoFrag, PyNone, NoUsage, PyNone)

ToolEv(index, id, name, args) == Event("toolcall_delta", PyNone, index, id, name, args, PyNone, NoUsage, PyNone)

UsageEv(p) == Event("usage", PyNone, PyNoInt, PyNone, PyNone, PyNoFrag, PyNone, p, PyNone)

DoneEv(reason) == Event("done", PyNone, PyNoInt, PyNone, PyNone, PyNoFrag, reason, NoUsage, PyNone)

ErrorEv(err) == Event("error", PyNone, PyNoInt, PyNone, PyNone, PyNoFrag, PyNone, NoUsage, err)

StopReasons == {"stop", "length", "tool_use", "error", "aborted"}

-----------------------------------------------------------------------------
(* json.loads on the argument buffer *)

WS == " "

Members == {"a:1", "b:2"}

\* The (key, value) pair a member lexeme denotes.
MemberKV(m) == IF m = "a:1" THEN <<"a", 1>> ELSE <<"b", 2>>

RECURSIVE LStrip(_)
LStrip(s) == IF s # <<>> /\ Head(s) = WS THEN LStrip(Tail(s)) ELSE s

RECURSIVE RStrip(_)
RStrip(s) ==
    IF s # <<>> /\ s[Len(s)] = WS THEN RStrip(SubSeq(s, 1, Len(s) - 1)) ELSE s

\* str.strip()
Strip(s) == RStrip(LStrip(s))

NotWs(x) == x # WS

\* json.loads(s): kind "dict" with the set of its (key, value) pairs, kind
\* "int" for a number, kind "error" for JSONDecodeError.
JsonLoads(s) ==
    LET b == Strip(s)
        c == SelectSeq(b, NotWs)
        n == Len(c)
        inner == SubSeq(c, 2, n - 1)
    IN  IF b # <<>> /\ \A i \in 1..Len(b) : b[i] = "1"
        THEN [kind |-> "int", val |-> {}]
        ELSE IF /\ n >= 2
                /\ c[1] = "{"
                /\ c[n] = "}"
                /\ \/ n = 2
                   \/ /\ Len(inner) % 2 = 1
                      /\ \A i \in 1..Len(inner) :
                            IF i % 2 = 1 THEN inner[i] \in Members
                                         ELSE inner[i] = ","
        THEN [kind |-> "dict",
              val |-> {MemberKV(inner[i]) : i \in {j \in 1..Len(inner) : j % 2 = 1}}]
        ELSE [kind |-> "error", val |-> {}]

ArgsObjKeepingNonObject(args_json) ==
    IF Strip(args_json) # <<>> /\ JsonLoads(args_json).kind = "dict"
    THEN JsonLoads(args_json).val
    ELSE IF Strip(args_json) # <<>> /\ JsonLoads(args_json).kind = "int"
    THEN {<<"", 1>>}
    ELSE {}

\* The args_obj of one call in _assemble_final.
ArgsObj(args_json) ==
    IF Strip(args_json) # <<>> /\ JsonLoads(args_json).kind = "dict"
    THEN JsonLoads(args_json).val
    ELSE {}

-----------------------------------------------------------------------------
(* The assembler's state *)

VARIABLES
    text,           \* self._text
    tool_calls,     \* self._tool_calls: index -> [id, name, arguments_json]
    usage,          \* the dict self._usage refers to
    final,          \* self._final (obj = 0: None)
    stop_reason,    \* self._stop_reason (PyNone: None)
    error_message,  \* self._error_message (PyNone: None)
    exhausted,      \* self._events_iter has raised StopAsyncIteration
    pc,             \* the consumer: "idle", or "result" inside result()'s loop
    log,            \* history: the events __anext__ has returned, in order
    finalAt,        \* history: Len(log) when self._final was last assigned
    returned,       \* history: the objects result() has returned
    \* The event source of OpenAICompatibleProvider.stream: the generator gen()
    gen,                \* where gen() stands: "created", "at_start", "reading",
                        \* "at_terminal" (at `yield done` or at the `yield error`
                        \* of the status branch, inside both `async with`),
                        \* "at_error" (at the `yield error` of the except
                        \* clause), "finished"
    awaiting,           \* an __anext__ call is running gen() to its next yield
    conn,               \* the HTTP response: "none", "open", "released"
    status,             \* resp.status_code (0: no response yet)
    outbox,             \* the events the current frame has still to yield
    frame_raises,       \* the current frame raises once they are yielded
    saw_tool_calls,     \* the local saw_tool_calls
    finish_reason_seen, \* the local finish_reason_seen
    pricing_in,         \* the local pricing_in (None until the options are read)
    pricing_out,        \* the local pricing_out
    raised,             \* the exception that left gen() ("none": none has)
    abandoned,          \* the consumer has dropped the stream
    frames,             \* history: the lines read from the response
    faulted,            \* history: the transport has raised a fault
    request,            \* the Context the caller holds, and the "messages" of
                        \* the payload stream() built from it (built: since
                        \* the Context last changed)
    \* A second assembler, built for another request
    peer                \* its fields; usage_obj is the object its _usage
                        \* refers to, usage the record of object 2

assemblerVars == <<text, tool_calls, usage, final, stop_reason, error_message,
                   exhausted, pc, log, finalAt, returned, peer>>

\* The prices gen() has read from the options.
pricing == <<pricing_in, pricing_out>>

adapterVars == <<gen, awaiting, conn, status, pricing, outbox, frame_raises,
                 saw_tool_calls, finish_reason_seen, raised, abandoned, frames,
                 faulted, request>>

vars == <<assemblerVars, adapterVars>>

\* A content block. index is a ghost: the key of the accumulator a toolCall
\* block was built from (-1 for the text block).
TextBlock(t) ==
    [type |-> "text", text |-> t, index |-> -1, id |-> "", name |-> "",
     arguments |-> {}]

ToolCallBlock(index, call) ==
    [type |-> "toolCall", text |-> "", index |-> index,
     id |-> IF call.id # "" THEN call.id ELSE "toolcall:" \o ToString(index),
     name |-> IF call.name # "" THEN call.name ELSE "unknown",
     arguments |-> ArgsObj(call.arguments_json)]

SortedDescending(S) ==
    LET RECURSIVE Desc(_)
        Desc(T) == IF T = {} THEN <<>>
                   ELSE LET m == CHOOSE x \in T : \A y \in T : y <= x
                        IN  <<m>> \o Desc(T \ {m})
    IN  Desc(S)

\* sorted(self._tool_calls.keys())
Sorted(S) ==
    LET RECURSIVE Asc(_)
        Asc(T) == IF T = {} THEN <<>>
                  ELSE LET m == CHOOSE x \in T : \A y \in T : x <= y
                       IN  <<m>> \o Asc(T \ {m})
    IN  Asc(S)

\* The message None stands for.
NoFinal ==
    [obj |-> 0, role |-> "assistant", content |-> <<>>, usage |-> "self._usage",
     stop_reason |-> "stop", has_error |-> FALSE, error_message |-> ""]

ResolveStopReasonAlwaysUpgrading(sr, anyCalls) ==
    LET reason0 == IF sr.t = "none" \/ sr.v = "" THEN "stop" ELSE sr.v
    IN  IF anyCalls /\ reason0 \in {"stop", "length"} THEN "tool_use" ELSE reason0

\* The stop reason of the message: `self._stop_reason or "stop"`, upgraded to
\* tool_use when tool calls exist and the reason is "stop".
ResolveStopReason(sr, anyCalls) ==
    LET reason0 == IF sr.t = "none" \/ sr.v = "" THEN "stop" ELSE sr.v
    IN  IF anyCalls /\ reason0 = "stop" THEN "tool_use" ELSE reason0

\* _assemble_final() over the accumulators txt and calls, called with the
\* stop reason and error message the handler has just recorded; obj is the
\* identity of the new dict.  The message's "usage" is the reference
\* self._usage, not a copy.
AssembleFinalOf(txt, calls, sr, em, obj) ==
    LET keys == Sorted(DOMAIN calls)
        content == (IF txt # "" THEN <<TextBlock(txt)>> ELSE <<>>)
                   \o [i \in 1..Len(keys) |-> ToolCallBlock(keys[i], calls[keys[i]])]
    IN  [obj |-> obj,
         role |-> "assistant",
         content |-> content,
         usage |-> "self._usage",
         stop_reason |-> ResolveStopReason(sr, DOMAIN calls # {}),
         has_error |-> em.t = "str" /\ em.v # "",
         error_message |-> IF em.t = "str" /\ em.v # "" THEN em.v ELSE ""]

\* _assemble_final() of the assembler itself.
AssembleFinal(sr, em, obj) == AssembleFinalOf(text, tool_calls, sr, em, obj)

\* What a holder of the message reads: the usage reference is followed.
View(msg) == [msg EXCEPT !.usage = usage]

-----------------------------------------------------------------------------
(* The request: _to_openai_messages *)

MaxHistory == 3

\* A content block of a message of the history: a text block with its text,
\* or a toolCall block with the name of the tool.
Block(type, t, name) == [type |-> type, text |-> t, name |-> name]

\* A message of the history. content is the string of a user message,
\* blocks the content list of an assistant or toolResult message.
Message(role, content, blocks, tool_call_id) ==
    [role |-> role, content |-> content, blocks |-> blocks,
     tool_call_id |-> tool_call_id]

RECURSIVE JoinAllBlocks(_)
JoinAllBlocks(blocks) ==
    IF blocks = <<>> THEN ""
    ELSE (IF Head(blocks).type = "text" THEN Head(blocks).text ELSE Head(blocks).name)
         \o JoinAllBlocks(Tail(blocks))

\* "".join(b.get("text", "") for b in blocks if ... b.get("type") == "text")
RECURSIVE JoinText(_)
JoinText(blocks) ==
    IF blocks = <<>> THEN ""
    ELSE (IF Head(blocks).type = "text" THEN Head(blocks).text ELSE "")
         \o JoinText(Tail(blocks))

\* The entries the loop of _to_openai_messages appends for msgs: one for a
\* user, assistant or toolResult message, none for any other role.
RECURSIVE TranslateMessages(_)
TranslateMessages(msgs) ==
    IF msgs = <<>> THEN <<>>
    ELSE LET msg == Head(msgs)
         IN  (CASE msg.role = "user" ->
                       <<[role |-> "user", content |-> msg.content]>>
                [] msg.role = "assistant" ->
                       <<[role |-> "assistant", content |-> JoinText(msg.blocks)]>>
                [] msg.role = "toolResult" ->
                       <<[role |-> "tool", tool_call_id |-> msg.tool_call_id,
                          content |-> JoinText(msg.blocks)]>>
                [] OTHER -> <<>>)
             \o TranslateMessages(Tail(msgs))

\* _to_openai_messages(context)
ToOpenAIMessages(context) ==
    (IF context.system_prompt # ""
     THEN <<[role |-> "system", content |-> context.system_prompt]>> ELSE <<>>)
    \o TranslateMessages(context.messages)

EmptyContext == [system_prompt |-> "", messages |-> <<>>]

SharedZeroUsage(k) == 1

\* The object _zero_usage() returns at its k-th call: a new dict each time.
ZeroUsageObject(k) == k

\* The fields __init__ gives the second assembler.
PeerInit ==
    [text |-> "", tool_calls |-> <<>>, usage_obj |-> ZeroUsageObject(2),
     usage |-> ZeroUsage, final |-> NoFinal, stop_reason |-> PyNone,
     error_message |-> PyNone, log |-> <<>>, finalAt |-> 0]

Init ==
    /\ peer = PeerInit
    /\ text = ""
    /\ tool_calls = <<>>
    /\ usage = ZeroUsage
    /\ final = NoFinal
    /\ stop_reason = PyNone
    /\ error_message = PyNone
    /\ exhausted = FALSE
    /\ pc = "idle"
    /\ log = <<>>
    /\ finalAt = 0
    /\ returned = {}
    /\ gen = "created"
    /\ awaiting = FALSE
    /\ conn = "none"
    /\ status = 0
    /\ pricing_in = PyNoInt
    /\ pricing_out = PyNoInt
    /\ outbox = <<>>
    /\ frame_raises = FALSE
    /\ saw_tool_calls = FALSE
    /\ finish_reason_seen = PyNone
    /\ raised = "none"
    /\ abandoned = FALSE
    /\ frames = <<>>
    /\ faulted = FALSE
    /\ request = [context |-> EmptyContext, built |-> TRUE,
                  messages |-> ToOpenAIMessages(EmptyContext)]

-----------------------------------------------------------------------------
(* __anext__: the reduction of one event *)

PrependText(t, delta) == IF IsStr(delta) THEN delta.v \o t ELSE t

\* self._text += delta
AppendText(t, delta) == IF IsStr(delta) THEN t \o delta.v ELSE t

NewCall == [id |-> "", name |-> "", arguments_json |-> <<>>]

UpdateCallOverwritingArgs(call, ev) ==
    [id |-> IF IsStr(ev.id) /\ ev.id.v # "" THEN ev.id.v ELSE call.id,
     name |-> IF IsStr(ev.name) /\ ev.name.v # "" THEN ev.name.v ELSE call.name,
     arguments_json |->
        IF IsStr(ev.arguments_delta) /\ ev.arguments_delta.v # <<>>
        THEN ev.arguments_delta.v
        ELSE call.arguments_json]

\* Lines 80-88: id and name are assigned when the event carries a non-empty
\* string, the argument fragment is appended.
UpdateCall(call, ev) ==
    [id |-> IF IsStr(ev.id) /\ ev.id.v # "" THEN ev.id.v ELSE call.id,
     name |-> IF IsStr(ev.name) /\ ev.name.v # "" THEN ev.name.v ELSE call.name,
     arguments_json |->
        IF IsStr(ev.arguments_delta) /\ ev.arguments_delta.v # <<>>
        THEN call.arguments_json \o ev.arguments_delta.v
        ELSE call.arguments_json]

ReduceToolCallSkippingEmpty(calls, ev) ==
    IF ~IsInt(ev.index) \/ UpdateCall(NewCall, ev) = NewCall THEN calls
    ELSE LET i == ev.index.v
             call == IF i \in DOMAIN calls THEN calls[i] ELSE NewCall
         IN  [k \in DOMAIN calls \cup {i} |->
                IF k = i THEN UpdateCall(call, ev) ELSE calls[k]]

\* The "toolcall_delta" case: a non-int index returns early.
ReduceToolCall(calls, ev) ==
    IF ~IsInt(ev.index) THEN calls
    ELSE LET i == ev.index.v
             call == IF i \in DOMAIN calls THEN calls[i] ELSE NewCall
         IN  [k \in DOMAIN calls \cup {i} |->
                IF k = i THEN UpdateCall(call, ev) ELSE calls[k]]

DoneReasonUnvalidated(reason) == reason

\* The "done" case: the recorded stop reason.
DoneReason(reason) ==
    IF IsStr(reason) /\ reason.v \in StopReasons THEN reason ELSE PyStr("stop")

\* The "error" case: str(err) if err is not None else "unknown error".
ErrorMessage(err) == IF err.t = "none" THEN PyStr("unknown error") ELSE err

\* The match statement of __anext__ on one event; the event is then appended
\* to the history of returned events.
Reduce(ev) ==
    /\ log' = Append(log, ev)
    /\ UNCHANGED peer
    /\ CASE ev.type = "text_delta" ->
              /\ text' = AppendText(text, ev.delta)
              /\ UNCHANGED <<tool_calls, usage, final, stop_reason,
                             error_message, finalAt>>
         [] ev.type = "toolcall_delta" ->
              /\ tool_calls' = ReduceToolCall(tool_calls, ev)
              /\ UNCHANGED <<text, usage, final, stop_reason, error_message,
                             finalAt>>
         [] ev.type = "done" ->
              /\ stop_reason' = DoneReason(ev.reason)
              /\ final' = AssembleFinal(stop_reason', error_message, final.obj + 1)
              /\ finalAt' = Len(log')
              /\ UNCHANGED <<text, tool_calls, usage, error_message>>
         [] ev.type = "usage" ->
              /\ usage' = MergeUsage(usage, ev.usage)
              /\ UNCHANGED <<text, tool_calls, final, stop_reason,
                             error_message, finalAt>>
         [] ev.type = "error" ->
              /\ error_message' = ErrorMessage(ev.error)
              /\ stop_reason' = PyStr("error")
              /\ final' = AssembleFinal(stop_reason', error_message', final.obj + 1)
              /\ finalAt' = Len(log')
              /\ UNCHANGED <<text, tool_calls, usage>>
         [] OTHER ->
              UNCHANGED <<text, tool_calls, usage, final, stop_reason,
                          error_message, finalAt>>

\* The consumer awaits __anext__ and the adapter yields ev.
Iterate(ev) ==
    /\ pc = "idle"
    /\ ~exhausted
    /\ Len(log) < MaxEvents
    /\ Reduce(ev)
    /\ UNCHANGED <<exhausted, pc, returned, adapterVars>>

\* The consumer awaits __anext__ and the adapter's sequence has ended:
\* StopAsyncIteration leaves the assembler as it is.
IterateEnd ==
    /\ pc = "idle"
    /\ ~exhausted
    /\ exhausted' = TRUE
    /\ UNCHANGED peer
    /\ UNCHANGED <<text, tool_calls, usage, final, stop_reason, error_message,
                   pc, log, finalAt, returned, adapterVars>>

-----------------------------------------------------------------------------
(* result() *)

\* Lines 120-121: the cached message is returned.
ResultCached ==
    /\ pc = "idle"
    /\ final.obj # 0
    /\ returned' = returned \cup {final.obj}
    /\ UNCHANGED peer
    /\ UNCHANGED <<text, tool_calls, usage, final, stop_reason, error_message,
                   exhausted, pc, log, finalAt, adapterVars>>

\* Line 123: no message yet, result() starts `async for _ in self`.
ResultEnter ==
    /\ pc = "idle"
    /\ final.obj = 0
    /\ pc' = "result"
    /\ UNCHANGED peer
    /\ UNCHANGED <<text, tool_calls, usage, final, stop_reason, error_message,
                   exhausted, log, finalAt, returned, adapterVars>>

ResultPullDiscarding(ev) ==
    /\ pc = "result"
    /\ ~exhausted
    /\ Len(log) < MaxEvents
    /\ log' = Append(log, ev)
    /\ UNCHANGED peer
    /\ UNCHANGED <<text, tool_calls, usage, final, stop_reason, error_message,
                   finalAt, exhausted, pc, returned, adapterVars>>

\* Lines 123-124: one turn of the loop, which does not stop at a terminal
\* event.
ResultPull(ev) ==
    /\ pc = "result"
    /\ ~exhausted
    /\ Len(log) < MaxEvents
    /\ Reduce(ev)
    /\ UNCHANGED <<exhausted, pc, returned, adapterVars>>

ResultReturnWithoutFinalizing ==
    /\ pc = "result"
    /\ exhausted' = TRUE
    /\ pc' = "idle"
    /\ returned' = returned \cup {final.obj}
    /\ UNCHANGED peer
    /\ UNCHANGED <<text, tool_calls, usage, final, stop_reason, error_message,
                   log, finalAt, adapterVars>>

\* Lines 126-130: the loop ends with the adapter's sequence; a stream without
\* done or error is finalized here.
ResultReturn ==
    /\ pc = "result"
    /\ exhausted' = TRUE
    /\ pc' = "idle"
    /\ IF final.obj = 0
       THEN /\ stop_reason' = IF stop_reason.t = "none" \/ stop_reason.v = ""
                              THEN PyStr("stop") ELSE stop_reason
            /\ final' = AssembleFinal(stop_reason', error_message, final.obj + 1)
            /\ finalAt' = Len(log)
       ELSE UNCHANGED <<stop_reason, final, finalAt>>
    /\ returned' = returned \cup {final'.obj}
    /\ UNCHANGED peer
    /\ UNCHANGED <<text, tool_calls, usage, error_message, log, adapterVars>>

\* One assembler wired to an adapter that draws its events from evs.
NextOf(evs) ==
    \/ \E ev \in evs : Iterate(ev)
    \/ IterateEnd
    \/ ResultCached
    \/ ResultEnter
    \/ \E ev \in evs : ResultPull(ev)
    \/ ResultReturn

-----------------------------------------------------------------------------
(* Event alphabets *)

Usage1 == UsagePayload(TRUE, [NoTok EXCEPT !["input"] = PyInt(1)], FALSE, NoCost)

ToolA == ToolEv(PyInt(0), PyStr("c1"), PyStr("add"), PyFrag(<<"{", "a:1", "}">>))

\* A mixed alphabet: every event type, every kind of terminal event.
Events ==
    {StartEv, TextEv(PyStr("x")), ToolA, UsageEv(Usage1),
     DoneEv(PyStr("stop")), DoneEv(PyStr("length")),
     ErrorEv(PyStr("boom")), ErrorEv(PyStr("")), ErrorEv(PyNone)}

Next == NextOf(Events)

Spec == Init /\ [][Next]_vars

\* Text deltas of every kind (two letters, the empty string, a missing delta)
\* between tool-call and usage events.
TextEvents ==
    {TextEv(PyStr("x")), TextEv(PyStr("y")), TextEv(PyStr("")), TextEv(PyNone),
     ToolA, UsageEv(Usage1), DoneEv(PyStr("stop")), ErrorEv(PyStr("boom"))}

NextText == NextOf(TextEvents)

SpecText == Init /\ [][NextText]_vars

\* The argument fragments of the repository's tool-call test, split as there:
\* `{"a": 1,` and ` "b": 2}`.
FragOpen == <<"{", "a:1", ",">>

FragClose == <<WS, "b:2", "}">>

\* Argument fragments for two concurrently streamed calls, a fragment that
\* is a number, and text and usage events between them.
ArgsEvents ==
    {ToolEv(PyInt(i), PyNone, PyNone, PyFrag(f)) : i \in {0, 1}, f \in {FragOpen, FragClose}}
    \cup {ToolEv(PyInt(0), PyNone, PyNone, PyFrag(<<"1">>)),
          TextEv(PyStr("x")), UsageEv(Usage1), DoneEv(PyStr("tool_use"))}

NextArgs == NextOf(ArgsEvents)

SpecArgs == Init /\ [][NextArgs]_vars

\* Deltas for three indices carrying ids and names (two different ones for
\* index 0), a delta carrying nothing, a delta without an index, and text.
CallEvents ==
    {ToolEv(PyInt(0), PyStr("c1"), PyStr("add"), PyNoFrag),
     ToolEv(PyInt(0), PyStr("c2"), PyStr("sub"), PyNoFrag),
     ToolEv(PyInt(0), PyStr(""), PyNone, PyFrag(<<"{", "}">>)),
     ToolEv(PyInt(1), PyStr("c3"), PyNone, PyNoFrag),
     ToolEv(PyInt(2), PyNone, PyNone, PyNoFrag),
     ToolEv(PyNoInt, PyStr("c4"), PyStr("mul"), PyFrag(<<"{", "}">>)),
     TextEv(PyStr("x")), DoneEv(PyStr("stop"))}

NextCalls == NextOf(CallEvents)

SpecCalls == Init /\ [][NextCalls]_vars

\* The reasons a done event may carry (four of StopReason, an unknown one,
\* none at all) and an error event, with and without tool calls before them.
StopEvents ==
    {DoneEv(PyStr(r)) : r \in {"stop", "length", "tool_use", "aborted", "end_turn"}}
    \cup {DoneEv(PyNone), ErrorEv(PyStr("boom")), ToolA}

NextStop == NextOf(StopEvents)

SpecStop == Init /\ [][NextStop]_vars

\* Partial usage reports: {input: 1}, {cache_read: 3}, {input: 2, cost:
\* {total: 0.03}}, {cost: {input: 1}} (an int where a float is declared),
\* {input: 2.0, output: None} (no int in either), and a usage that is no dict.
UsagePayloads ==
    {Usage1,
     UsagePayload(TRUE, [NoTok EXCEPT !["cache_read"] = PyInt(3)], FALSE, NoCost),
     UsagePayload(TRUE, [NoTok EXCEPT !["input"] = PyInt(2)], TRUE,
                  [NoCost EXCEPT !["total"] = PyFloat(3)]),
     UsagePayload(TRUE, NoTok, TRUE, [NoCost EXCEPT !["input"] = PyInt(1)]),
     UsagePayload(TRUE, [NoTok EXCEPT !["input"] = PyFloat(200)], FALSE, NoCost),
     NoUsage}

UsageEvents == {UsageEv(p) : p \in UsagePayloads} \cup {DoneEv(PyStr("stop"))}

NextUsage == NextOf(UsageEvents)

SpecUsage == Init /\ [][NextUsage]_vars


\* Argument buffers that do not parse to an object: an unterminated object
\* for index 0 (continued by a number or by white space), white space alone
\* for index 2; a well-formed object for index 1; a delta carrying nothing
\* for index 3; text.
MalformedEvents ==
    {ToolEv(PyInt(0), PyStr("c1"), PyStr("add"), PyFrag(FragOpen)),
     ToolEv(PyInt(0), PyNone, PyNone, PyFrag(<<"1">>)),
     ToolEv(PyInt(2), PyStr("c2"), PyNone, PyFrag(<<WS>>)),
     ToolEv(PyInt(1), PyNone, PyStr("sub"), PyFrag(<<"{", "a:1", "}">>)),
     ToolEv(PyInt(3), PyNone, PyNone, PyNoFrag),
     TextEv(PyStr("x")), DoneEv(PyStr("stop")), ErrorEv(PyStr("boom"))}

NextMalformed == NextOf(MalformedEvents)

SpecMalformed == Init /\ [][NextMalformed]_vars



\* done events with every reason of the closed set, with an unknown string
\* and with no reason, and an error event.
ReasonEvents ==
    {DoneEv(PyStr(r)) : r \in StopReasons}
    \cup {DoneEv(PyStr("content_filter")), DoneEv(PyNone), ErrorEv(PyStr("boom"))}

\* The consumer iterates the events itself and calls result() at any point.
NextReasons ==
    \/ \E ev \in ReasonEvents : Iterate(ev)
    \/ ResultCached
    \/ ResultEnter
    \/ ResultReturn

SpecReasons == Init /\ [][NextReasons]_vars

-----------------------------------------------------------------------------
(* The OpenAI-compatible adapter: what one line of the response decodes to *)

\* The `usage` object of a vendor frame. present: it is a non-empty dict;
\* cost_details: its cost_details is a dict.
VendorUsage(prompt, completion, total, cost, details, prompt_cost, completion_cost) ==
    [present |-> TRUE, prompt_tokens |-> prompt, completion_tokens |-> completion,
     total_tokens |-> total, cost |-> cost, cost_details |-> details,
     upstream_inference_prompt_cost |-> prompt_cost,
     upstream_inference_completions_cost |-> completion_cost]

NoVendorUsage ==
    [VendorUsage(PyNoInt, PyNoInt, PyNoInt, PyNoInt, FALSE, PyNoInt, PyNoInt)
        EXCEPT !.present = FALSE]

\* _usage_from_openai(usage): counters that are not ints become 0, a total
\* that is not an int becomes prompt + completion, the cache counters are 0;
\* the cost record starts at 0.0 and takes the split of cost_details and the
\* explicit total, which is preferred.
UsageFromOpenAI(u) ==
    LET prompt == IF IsInt(u.prompt_tokens) THEN u.prompt_tokens.v ELSE 0
        completion == IF IsInt(u.completion_tokens) THEN u.completion_tokens.v ELSE 0
        total == IF IsInt(u.total_tokens) THEN u.total_tokens.v ELSE prompt + completion
        cin == IF u.cost_details /\ IsNumber(u.upstream_inference_prompt_cost)
               THEN ToFloat(u.upstream_inference_prompt_cost) ELSE 0
        cout == IF u.cost_details /\ IsNumber(u.upstream_inference_completions_cost)
                THEN ToFloat(u.upstream_inference_completions_cost) ELSE 0
        ctotal == IF IsNumber(u.cost) THEN ToFloat(u.cost)
                  ELSE IF u.cost_details THEN cin + cout ELSE 0
    IN  [tok  |-> [k \in TokenKeys |->
                     CASE k = "input" -> prompt
                       [] k = "output" -> completion
                       [] k = "total_tokens" -> total
                       [] OTHER -> 0],
         cost |-> [k \in CostKeys |->
                     CASE k = "input" -> cin
                       [] k = "output" -> cout
                       [] k = "total" -> ctotal
                       [] OTHER -> 0]]

\* The prices of the StreamOptions: opts.get("input_cost_per_1m") and
\* opts.get("output_cost_per_1m"), None when the option is not given.
Prices(input_cost_per_1m, output_cost_per_1m) ==
    [input_cost_per_1m |-> input_cost_per_1m,
     output_cost_per_1m |-> output_cost_per_1m]

NoPrices == Prices(PyNoInt, PyNoInt)

\* The pricing fallback of gen(): taken when the mapped total is 0.0 and a
\* price is given; tokens / 1_000_000.0 * price, in hundredths (exact for the
\* token counts of this model, which are multiples of 1_000_000).
WithPricing(m) ==
    IF m.cost["total"] = 0 /\ (IsNumber(pricing_in) \/ IsNumber(pricing_out))
    THEN LET cin == IF IsNumber(pricing_in)
                    THEN (m.tok["input"] * ToFloat(pricing_in)) \div 1000000
                    ELSE m.cost["input"]
             cout == IF IsNumber(pricing_out)
                     THEN (m.tok["output"] * ToFloat(pricing_out)) \div 1000000
                     ELSE m.cost["output"]
         IN  [m EXCEPT !.cost = [@ EXCEPT !["input"] = cin, !["output"] = cout,
                                          !["total"] = cin + cout]]
    ELSE m

\* The payload of the usage event the adapter yields: every counter an int,
\* every cost a float.
MappedUsage(u) ==
    LET m == WithPricing(UsageFromOpenAI(u))
    IN  UsagePayload(TRUE, [k \in TokenKeys |-> PyInt(m.tok[k])],
                     TRUE, [k \in CostKeys |-> PyFloat(m.cost[k])])

\* One element of delta["tool_calls"]. isdict: the element is a dict; name
\* and arguments are those of its "function" (None when that is no dict).
ToolCallEntry(isdict, index, id, name, arguments) ==
    [isdict |-> isdict, index |-> index, id |-> id, name |-> name,
     arguments |-> arguments]

\* One line of resp.aiter_lines().
\*   line:    "blank" (empty), "other" (no data: prefix), "data"
\*   data:    "[DONE]", "badjson" (json.loads raises), "nonobject" (valid
\*            JSON that is no object), "object"
\*   choices: "absent" (missing or empty), "badshape" (choices[0] or its
\*            delta is no dict), "list"
Frame(line, data, u, choices, content, tcs, finish_reason) ==
    [line |-> line, data |-> data, usage |-> u, choices |-> choices,
     content |-> content, tool_calls |-> tcs, finish_reason |-> finish_reason]

BlankLine == Frame("blank", "object", NoVendorUsage, "absent", PyNone, <<>>, PyNone)

CommentLine == Frame("other", "object", NoVendorUsage, "absent", PyNone, <<>>, PyNone)

BadJson == Frame("data", "badjson", NoVendorUsage, "absent", PyNone, <<>>, PyNone)

NonObject == Frame("data", "nonobject", NoVendorUsage, "absent", PyNone, <<>>, PyNone)

BadChoices == Frame("data", "object", NoVendorUsage, "badshape", PyNone, <<>>, PyNone)

ContentFrame(c) == Frame("data", "object", NoVendorUsage, "list", c, <<>>, PyNone)

ToolFrame(tcs) == Frame("data", "object", NoVendorUsage, "list", PyNone, tcs, PyNone)

FinishFrame(r) == Frame("data", "object", NoVendorUsage, "list", PyNone, <<>>, r)

UsageFrame(u) == Frame("data", "object", u, "absent", PyNone, <<>>, PyNone)

\* The toolcall_delta events of `for tc in tool_calls`: an element that is
\* no dict or has no int index yields nothing.
RECURSIVE ToolCallDeltas(_)
ToolCallDeltas(tcs) ==
    IF tcs = <<>> THEN <<>>
    ELSE LET tc == Head(tcs)
         IN  (IF tc.isdict /\ IsInt(tc.index)
              THEN <<ToolEv(tc.index, tc.id, tc.name, tc.arguments)>>
              ELSE <<>>) \o ToolCallDeltas(Tail(tcs))

\* finish_reason in {"tool_calls", "tool_call"}
ToolFinish(r) == IsStr(r) /\ r.v \in {"tool_calls", "tool_call"}

SawToolCallsWhenEmitted(f) ==
    ToolCallDeltas(f.tool_calls) # <<>> \/ ToolFinish(f.finish_reason)

\* Whether a frame with a choices entry sets saw_tool_calls: its delta has a
\* non-empty tool_calls list, or its finish_reason is a tool finish.
SawToolCalls(f) ==
    Len(f.tool_calls) > 0 \/ ToolFinish(f.finish_reason)

NoEffect == [events |-> <<>>, raises |-> FALSE, saw |-> FALSE, finish |-> PyNone]

\* The body of `async for line in resp.aiter_lines()` for a line that is not
\* the sentinel: the events it yields, in order; whether it then raises
\* (AttributeError of .get on a value that is no dict); whether it sets
\* saw_tool_calls; the finish_reason it records (None: none).
DecodeFrame(f) ==
    IF f.line # "data" \/ f.data = "badjson" THEN NoEffect
    ELSE IF f.data = "nonobject" THEN [NoEffect EXCEPT !.raises = TRUE]
    ELSE LET usageEvents == IF f.usage.present
                            THEN <<UsageEv(MappedUsage(f.usage))>> ELSE <<>>
             textEvents == IF IsStr(f.content) /\ f.content.v # ""
                           THEN <<TextEv(f.content)>> ELSE <<>>
         IN  CASE f.choices = "absent" -> [NoEffect EXCEPT !.events = usageEvents]
               [] f.choices = "badshape" ->
                     [NoEffect EXCEPT !.events = usageEvents, !.raises = TRUE]
               [] OTHER ->
                     [events |-> usageEvents \o textEvents \o ToolCallDeltas(f.tool_calls),
                      raises |-> FALSE,
                      saw    |-> SawToolCalls(f),
                      finish |-> IF IsStr(f.finish_reason) /\ f.finish_reason.v # ""
                                 THEN f.finish_reason ELSE PyNone]


-----------------------------------------------------------------------------
(* The OpenAI-compatible adapter: gen(), run by the assembler's __anext__ *)

\* The sentinel line `data: [DONE]`.
DoneLine == Frame("data", "[DONE]", NoVendorUsage, "absent", PyNone, <<>>, PyNone)

LeakOpen(c) == c

\* What leaving `async with client.stream(...)` and `async with
\* httpx.AsyncClient(...)` does to the connection.
ExitAsyncWith(c) == IF c = "open" THEN "released" ELSE c

DeliverUnreduced(ev) ==
    /\ log' = Append(log, ev)
    /\ awaiting' = FALSE
    /\ UNCHANGED <<text, tool_calls, usage, final, stop_reason, error_message,
                   finalAt, exhausted, pc, returned, peer>>

\* gen() yields ev: the assembler's __anext__ reduces it and hands it to the
\* consumer.
Deliver(ev) ==
    /\ Reduce(ev)
    /\ awaiting' = FALSE
    /\ UNCHANGED <<exhausted, pc, returned>>

\* The consumer -- its own `async for`, or the one of result() -- awaits
\* __anext__.
Pull ==
    /\ ~awaiting
    /\ ~exhausted
    /\ ~abandoned
    /\ raised = "none"
    /\ awaiting' = TRUE
    /\ UNCHANGED <<assemblerVars, gen, conn, status, pricing, request, outbox, frame_raises,
                   saw_tool_calls, finish_reason_seen, raised, abandoned,
                   frames, faulted>>

\* The first statement of gen(): yield start.
GenStart ==
    /\ awaiting
    /\ gen = "created"
    /\ Deliver(StartEv)
    /\ gen' = "at_start"
    /\ UNCHANGED <<conn, status, pricing, request, outbox, frame_raises, saw_tool_calls,
                   finish_reason_seen, raised, abandoned, frames, faulted>>

\* gen() is resumed after start: it reads the prices of the options opts,
\* and client.stream(...) answers with status code s.
GenConnect(s, opts) ==
    /\ awaiting
    /\ gen = "at_start"
    /\ pricing_in' = opts.input_cost_per_1m
    /\ pricing_out' = opts.output_cost_per_1m
    /\ conn' = "open"
    /\ status' = s
    /\ UNCHANGED request
    /\ gen' = IF s >= 400 THEN "at_status" ELSE "reading"
    /\ UNCHANGED <<assemblerVars, awaiting, outbox, frame_raises,
                   saw_tool_calls, finish_reason_seen, raised, abandoned,
                   frames, faulted>>

\* client.stream(...) raises an httpx.HTTPError: no response is opened, the
\* except clause yields the error event.
GenConnectFault ==
    /\ awaiting
    /\ gen = "at_start"
    /\ faulted' = TRUE
    /\ Deliver(ErrorEv(PyStr("connect fault")))
    /\ gen' = "at_error"
    /\ UNCHANGED <<conn, status, pricing, request, outbox, frame_raises, saw_tool_calls,
                   finish_reason_seen, raised, abandoned, frames>>

\* The branch of resp.status_code >= 400: the body is read and the error
\* event yielded.
GenStatusError ==
    /\ awaiting
    /\ gen = "at_status"
    /\ Deliver(ErrorEv(PyStr("HTTP " \o ToString(status) \o ": oops")))
    /\ gen' = "at_terminal"
    /\ UNCHANGED <<conn, status, pricing, request, outbox, frame_raises, saw_tool_calls,
                   finish_reason_seen, raised, abandoned, frames, faulted>>

\* resp.aread() or resp.aiter_lines() raises an httpx.HTTPError: it leaves
\* both `async with`, which release the connection, and the except clause
\* yields the error event.
GenReadFault ==
    /\ awaiting
    /\ gen \in {"at_status", "reading"}
    /\ outbox = <<>>
    /\ ~frame_raises
    /\ faulted' = TRUE
    /\ conn' = ExitAsyncWith(conn)
    /\ Deliver(ErrorEv(PyStr("read fault")))
    /\ gen' = "at_error"
    /\ UNCHANGED <<status, pricing, request, outbox, frame_raises, saw_tool_calls,
                   finish_reason_seen, raised, abandoned, frames>>

\* resp.aiter_lines() gives a line f that is not the sentinel. The flags are
\* only read after the line's last yield, so they are set here.
GenRead(f) ==
    LET d == DecodeFrame(f)
    IN  /\ awaiting
        /\ gen = "reading"
        /\ outbox = <<>>
        /\ ~frame_raises
        /\ Len(frames) < MaxEvents
        /\ Len(log) + Len(d.events) < MaxEvents
        /\ frames' = Append(frames, f)
        /\ outbox' = d.events
        /\ frame_raises' = d.raises
        /\ saw_tool_calls' = (saw_tool_calls \/ d.saw)
        /\ finish_reason_seen' = IF d.finish = PyNone THEN finish_reason_seen
                                 ELSE d.finish
        /\ UNCHANGED <<assemblerVars, gen, awaiting, conn, status, pricing, request, raised,
                       abandoned, faulted>>

\* The next yield of the line being decoded.
GenYield ==
    /\ awaiting
    /\ gen = "reading"
    /\ outbox # <<>>
    /\ Deliver(Head(outbox))
    /\ outbox' = Tail(outbox)
    /\ UNCHANGED <<gen, conn, status, pricing, request, frame_raises, saw_tool_calls,
                   finish_reason_seen, raised, abandoned, frames, faulted>>

\* The line being decoded raises AttributeError, which the except clause
\* does not catch: it leaves both `async with` and reaches the consumer,
\* out of __anext__ and out of result(). Should closing raise an
\* httpx.HTTPError instead, that one is caught and yielded as an error event.
GenRaise ==
    /\ awaiting
    /\ gen = "reading"
    /\ outbox = <<>>
    /\ frame_raises
    /\ frame_raises' = FALSE
    /\ conn' = ExitAsyncWith(conn)
    /\ \/ /\ raised' = "AttributeError"
          /\ gen' = "finished"
          /\ awaiting' = FALSE
          /\ pc' = "idle"
          /\ UNCHANGED peer
          /\ UNCHANGED <<text, tool_calls, usage, final, stop_reason,
                         error_message, exhausted, log, finalAt, returned,
                         faulted>>
       \/ /\ faulted' = TRUE
          /\ Deliver(ErrorEv(PyStr("close fault")))
          /\ gen' = "at_error"
          /\ UNCHANGED raised
    /\ UNCHANGED <<status, pricing, request, outbox, saw_tool_calls, finish_reason_seen,
                   abandoned, frames>>

\* The line is `data: [DONE]`: yield done.
GenReadDone ==
    /\ awaiting
    /\ gen = "reading"
    /\ outbox = <<>>
    /\ ~frame_raises
    /\ frames' = Append(frames, DoneLine)
    /\ Deliver(DoneEv(PyStr(IF saw_tool_calls THEN "tool_use" ELSE "stop")))
    /\ gen' = "at_terminal"
    /\ UNCHANGED <<conn, status, pricing, request, outbox, frame_raises, saw_tool_calls,
                   finish_reason_seen, raised, abandoned, faulted>>

GenEndOfLinesPropagating ==
    /\ awaiting
    /\ gen = "reading"
    /\ outbox = <<>>
    /\ ~frame_raises
    /\ Deliver(DoneEv(IF saw_tool_calls THEN PyStr("tool_use")
                      ELSE IF IsStr(finish_reason_seen) THEN finish_reason_seen
                      ELSE PyStr("stop")))
    /\ gen' = "at_terminal"
    /\ UNCHANGED <<conn, status, pricing, request, outbox, frame_raises,
                   saw_tool_calls, finish_reason_seen, raised, abandoned,
                   frames, faulted>>

\* resp.aiter_lines() ends without a sentinel: the synthesized done.
GenEndOfLines ==
    /\ awaiting
    /\ gen = "reading"
    /\ outbox = <<>>
    /\ ~frame_raises
    /\ Deliver(DoneEv(PyStr(IF saw_tool_calls \/ ToolFinish(finish_reason_seen)
                            THEN "tool_use" ELSE "stop")))
    /\ gen' = "at_terminal"
    /\ UNCHANGED <<conn, status, pricing, request, outbox, frame_raises, saw_tool_calls,
                   finish_reason_seen, raised, abandoned, frames, faulted>>

\* gen() is resumed after its done event or after the error event of the
\* status branch: it leaves both `async with`, which release the connection,
\* and ends. Should closing raise an httpx.HTTPError, the except clause
\* yields an error event.
GenReturn ==
    /\ awaiting
    /\ gen = "at_terminal"
    /\ conn' = ExitAsyncWith(conn)
    /\ \/ /\ gen' = "finished"
          /\ exhausted' = TRUE
          /\ awaiting' = FALSE
          /\ UNCHANGED peer
          /\ UNCHANGED <<text, tool_calls, usage, final, stop_reason,
                         error_message, pc, log, finalAt, returned, faulted>>
       \/ /\ faulted' = TRUE
          /\ Deliver(ErrorEv(PyStr("close fault")))
          /\ gen' = "at_error"
    /\ UNCHANGED <<status, pricing, request, outbox, frame_raises, saw_tool_calls,
                   finish_reason_seen, raised, abandoned, frames>>

\* gen() is resumed after the error event of the except clause: it ends.
GenEnd ==
    /\ awaiting
    /\ gen = "at_error"
    /\ gen' = "finished"
    /\ exhausted' = TRUE
    /\ awaiting' = FALSE
    /\ UNCHANGED peer
    /\ UNCHANGED <<text, tool_calls, usage, final, stop_reason, error_message,
                   pc, log, finalAt, returned, conn, status, pricing, request, outbox,
                   frame_raises, saw_tool_calls, finish_reason_seen, raised,
                   abandoned, frames, faulted>>

\* The consumer leaves its loop and drops the stream.
Abandon ==
    /\ ~awaiting
    /\ pc = "idle"
    /\ ~abandoned
    /\ gen # "finished"
    /\ abandoned' = TRUE
    /\ UNCHANGED <<assemblerVars, gen, awaiting, conn, status, pricing, request, outbox,
                   frame_raises, saw_tool_calls, finish_reason_seen, raised,
                   frames, faulted>>

\* The event loop's finalizer of the dropped generator awaits gen.aclose():
\* GeneratorExit is raised at the yield where gen() stands and leaves the
\* `async with` it is in. A fault of closing is caught by the except clause,
\* whose yield under GeneratorExit ends gen() with a RuntimeError that goes
\* to the finalizer, not to the consumer.
GenAclose ==
    /\ abandoned
    /\ gen # "finished"
    /\ gen' = "finished"
    /\ conn' = ExitAsyncWith(conn)
    /\ faulted' \in IF conn = "open" THEN {faulted, TRUE} ELSE {faulted}
    /\ UNCHANGED <<assemblerVars, awaiting, status, pricing, request, outbox, frame_raises,
                   saw_tool_calls, finish_reason_seen, raised, abandoned,
                   frames>>

\* result() while a final message is stored.
AdapterResultCached ==
    /\ ~awaiting
    /\ ResultCached

\* result() while no final message is stored: it starts draining gen().
AdapterResultEnter ==
    /\ ~awaiting
    /\ ~abandoned
    /\ raised = "none"
    /\ ResultEnter

\* The `async for` of result() has met the end of gen().
AdapterResultReturn ==
    /\ exhausted
    /\ ResultReturn

Statuses == {200, 302, 500}

\* gen() over the lines fs, for streams opened with one of the options os.
NextAdapterWith(fs, os) ==
    \/ Pull
    \/ GenStart
    \/ \E s \in Statuses, opts \in os : GenConnect(s, opts)
    \/ GenConnectFault
    \/ GenStatusError
    \/ GenReadFault
    \/ \E f \in fs : GenRead(f)
    \/ GenYield
    \/ GenRaise
    \/ GenReadDone
    \/ GenEndOfLines
    \/ GenReturn
    \/ GenEnd
    \/ Abandon
    \/ GenAclose
    \/ AdapterResultCached
    \/ AdapterResultEnter
    \/ AdapterResultReturn

\* gen() for streams opened without prices.
NextAdapterOf(fs) == NextAdapterWith(fs, {NoPrices})

ToolCall0 == ToolCallEntry(TRUE, PyInt(0), PyStr("c1"), PyStr("add"),
                           PyFrag(<<"{", "a:1", "}">>))

AdapterFrames ==
    {BlankLine, CommentLine, BadJson, NonObject, BadChoices,
     ContentFrame(PyStr("x")), ToolFrame(<<ToolCall0>>)}

NextAdapter == NextAdapterOf(AdapterFrames)

SpecAdapter == Init /\ [][NextAdapter]_vars


\* An element of tool_calls without an index.
ToolCallNoIndex == ToolCallEntry(TRUE, PyNoInt, PyStr("c1"), PyStr("add"), PyNoFrag)

SignalFrames ==
    {ToolFrame(<<ToolCall0>>), ToolFrame(<<ToolCallNoIndex>>),
     FinishFrame(PyStr("tool_calls")), FinishFrame(PyStr("length")),
     ContentFrame(PyStr("x")), NonObject}

NextSignals == NextAdapterOf(SignalFrames)

SpecSignals == Init /\ [][NextSignals]_vars


ReleaseFrames == {ContentFrame(PyStr("x")), ToolFrame(<<ToolCall0>>), NonObject}

NextRelease == NextAdapterOf(ReleaseFrames)

\* The event loop finalizes a dropped asynchronous generator: asyncio's
\* asyncgen hooks schedule gen.aclose() when the generator is collected, and
\* shutdown_asyncgens() closes the ones left when the loop ends. Nothing is
\* assumed of the consumer or of the transport.
SpecRelease == Init /\ [][NextRelease]_vars /\ WF_vars(GenAclose)


\* A vendor's usage report split over frames: prompt_tokens only,
\* completion_tokens only, cost only.
SplitUsageFrames ==
    {UsageFrame(VendorUsage(PyInt(10), PyNoInt, PyNoInt, PyNoInt, FALSE, PyNoInt, PyNoInt)),
     UsageFrame(VendorUsage(PyNoInt, PyInt(5), PyNoInt, PyNoInt, FALSE, PyNoInt, PyNoInt)),
     UsageFrame(VendorUsage(PyNoInt, PyNoInt, PyNoInt, PyFloat(3), FALSE, PyNoInt, PyNoInt)),
     ContentFrame(PyStr("x")), NonObject}

NextSplitUsage == NextAdapterOf(SplitUsageFrames)

SpecSplitUsage == Init /\ [][NextSplitUsage]_vars


-----------------------------------------------------------------------------
(* Two assemblers, built for two requests, reduced in any interleaving *)

\* The usage record an assembler's self._usage refers to: object 1 is the
\* record of the first assembler.
UsageCell(obj) == IF obj = ZeroUsageObject(1) THEN usage ELSE peer.usage

\* __anext__ of the second assembler on ev: the fields it gives p.  A usage
\* event writes the record p's _usage refers to.
PeerReduce(p, ev) ==
    LET q == [p EXCEPT !.log = Append(p.log, ev)]
    IN  CASE ev.type = "text_delta" ->
                 [q EXCEPT !.text = AppendText(p.text, ev.delta)]
          [] ev.type = "toolcall_delta" ->
                 [q EXCEPT !.tool_calls = ReduceToolCall(p.tool_calls, ev)]
          [] ev.type = "done" ->
                 [q EXCEPT !.stop_reason = DoneReason(ev.reason),
                           !.final = AssembleFinalOf(p.text, p.tool_calls,
                                                     DoneReason(ev.reason),
                                                     p.error_message, p.final.obj + 1),
                           !.finalAt = Len(q.log)]
          [] ev.type = "usage" ->
                 IF p.usage_obj = ZeroUsageObject(1) THEN q
                 ELSE [q EXCEPT !.usage = MergeUsage(p.usage, ev.usage)]
          [] ev.type = "error" ->
                 [q EXCEPT !.error_message = ErrorMessage(ev.error),
                           !.stop_reason = PyStr("error"),
                           !.final = AssembleFinalOf(p.text, p.tool_calls, PyStr("error"),
                                                     ErrorMessage(ev.error),
                                                     p.final.obj + 1),
                           !.finalAt = Len(q.log)]
          [] OTHER -> q

\* The consumer of the second stream awaits __anext__ and its adapter yields
\* ev.
PeerIterate(ev) ==
    /\ Len(log) + Len(peer.log) < MaxEvents
    /\ peer' = PeerReduce(peer, ev)
    /\ usage' = IF ev.type = "usage" /\ peer.usage_obj = ZeroUsageObject(1)
                THEN MergeUsage(usage, ev.usage) ELSE usage
    /\ UNCHANGED <<text, tool_calls, final, stop_reason, error_message,
                   exhausted, pc, log, finalAt, returned, adapterVars>>

PeerEvents ==
    {TextEv(PyStr("x")), ToolA, UsageEv(Usage1), DoneEv(PyStr("stop"))}

NextPeers ==
    \/ \E ev \in PeerEvents : Iterate(ev)
    \/ \E ev \in PeerEvents : PeerIterate(ev)

SpecPeers == Init /\ [][NextPeers]_vars


\* Usage frames with an explicit cost of zero, an explicit cost of 5.00 and
\* no cost field, for streams opened with and without prices.
PricedFrames ==
    {UsageFrame(VendorUsage(PyInt(1000000), PyInt(1000000), PyNoInt, PyInt(0),
                            FALSE, PyNoInt, PyNoInt)),
     UsageFrame(VendorUsage(PyInt(1000000), PyNoInt, PyNoInt, PyFloat(500),
                            FALSE, PyNoInt, PyNoInt)),
     UsageFrame(VendorUsage(PyInt(1000000), PyInt(2000000), PyNoInt, PyNoInt,
                            FALSE, PyNoInt, PyNoInt)),
     NonObject}

PricedOptions ==
    {NoPrices, Prices(PyInt(3), PyFloat(200)), Prices(PyInt(3), PyNoInt)}

NextPriced == NextAdapterWith(PricedFrames, PricedOptions)

SpecPriced == Init /\ [][NextPriced]_vars


-----------------------------------------------------------------------------
(* The caller's history and the request stream() builds from it *)

\* The caller changes the Context to c: no payload is built from it yet.
SetContext(c) ==
    /\ request' = [request EXCEPT !.context = c, !.built = FALSE]
    /\ UNCHANGED <<assemblerVars, gen, awaiting, conn, status, pricing, outbox,
                   frame_raises, saw_tool_calls, finish_reason_seen, raised,
                   abandoned, frames, faulted>>

\* The caller sets the system prompt.
SetSystemPrompt(p) ==
    /\ request.context.system_prompt # p
    /\ SetContext([request.context EXCEPT !.system_prompt = p])

\* The caller appends a message to the history.
AppendMessage(msg) ==
    /\ Len(request.context.messages) < MaxHistory
    /\ SetContext([request.context EXCEPT !.messages = Append(@, msg)])

\* stream(): payload["messages"] = _to_openai_messages(context)
BuildPayload ==
    /\ ~request.built
    /\ request' = [request EXCEPT !.built = TRUE,
                                  !.messages = ToOpenAIMessages(request.context)]
    /\ UNCHANGED <<assemblerVars, gen, awaiting, conn, status, pricing, outbox,
                   frame_raises, saw_tool_calls, finish_reason_seen, raised,
                   abandoned, frames, faulted>>

ToolCallBlockOf(name) == Block("toolCall", "", name)

HistoryMessages ==
    {Message("user", "hi", <<>>, PyNone),
     Message("assistant", "",
             <<Block("text", "a", ""), ToolCallBlockOf("add"), Block("text", "b", "")>>,
             PyNone),
     Message("assistant", "", <<ToolCallBlockOf("sub")>>, PyNone),
     Message("toolResult", "",
             <<Block("text", "r", ""), Block("text", "s", "")>>, PyStr("c1")),
     Message("developer", "zz", <<>>, PyNone)}

SystemPrompts == {"", "sys"}

NextTranslate ==
    \/ \E p \in SystemPrompts : SetSystemPrompt(p)
    \/ \E msg \in HistoryMessages : AppendMessage(msg)
    \/ BuildPayload

SpecTranslate == Init /\ [][NextTranslate]_vars


\* The second assembler is given the event sequence of the first, and its
\* consumer iterates every event itself.
PeerFollow ==
    LET ev == log[Len(peer.log) + 1]
    IN  /\ Len(peer.log) < Len(log)
        /\ peer' = PeerReduce(peer, ev)
        /\ usage' = IF ev.type = "usage" /\ peer.usage_obj = ZeroUsageObject(1)
                    THEN MergeUsage(usage, ev.usage) ELSE usage
        /\ UNCHANGED <<text, tool_calls, final, stop_reason, error_message,
                       exhausted, pc, log, finalAt, returned, adapterVars>>

SplitEvents ==
    {TextEv(PyStr("x")), ToolA, UsageEv(Usage1), DoneEv(PyStr("stop")),
     ErrorEv(PyStr("boom"))}

NextSplit ==
    \/ NextOf(SplitEvents)
    \/ PeerFollow

SpecSplit == Init /\ [][NextSplit]_vars

-----------------------------------------------------------------------------
(* What the history says the message should hold *)

\* The events reduced up to the assignment of self._final.
Reduced == SubSeq(log, 1, finalAt)

IsBuilt == final.obj # 0

\* The concatenation, in arrival order, of the string deltas of the
\* text_delta events of evs.
RECURSIVE DeltasOf(_)
DeltasOf(evs) ==
    IF evs = <<>> THEN ""
    ELSE LET e == Head(evs)
         IN  (IF e.type = "text_delta" /\ e.delta.t = "str" THEN e.delta.v ELSE "")
             \o DeltasOf(Tail(evs))

TextPositions == {i \in 1..Len(final.content) : final.content[i].type = "text"}

ToolPositions == {i \in 1..Len(final.content) : final.content[i].type = "toolCall"}

-----------------------------------------------------------------------------
\* C1: the text block of the final message is the concatenation, in arrival
\* order, of the deltas of the text_delta events reduced before the message
\* was built, whatever tool-call and usage events lie between them; the block
\* exists iff that concatenation is non-empty, and it is then the first block.
C1_TextIsConcatenation ==
    IsBuilt =>
        /\ TextPositions = IF DeltasOf(Reduced) # "" THEN {1} ELSE {}
        /\ \A i \in TextPositions : final.content[i].text = DeltasOf(Reduced)

\* Two text deltas with a tool-call delta between them have been assembled.
C1_Witness ==
    /\ IsBuilt
    /\ final.content # <<>>
    /\ final.content[1].text = "xy"
    /\ \E i, j, k \in 1..finalAt :
          /\ i < j /\ j < k
          /\ log[i] = TextEv(PyStr("x"))
          /\ log[j].type = "toolcall_delta"
          /\ log[k] = TextEv(PyStr("y"))

\* The tool-call deltas of evs addressed to index i.
DeltasFor(evs, i) ==
    SelectSeq(evs, LAMBDA e : e.type = "toolcall_delta" /\ e.index.t = "int" /\ e.index.v = i)

\* The concatenation, in arrival order, of the argument fragments of evs.
RECURSIVE FragmentsOf(_)
FragmentsOf(evs) ==
    IF evs = <<>> THEN <<>>
    ELSE (IF Head(evs).arguments_delta.t = "str" THEN Head(evs).arguments_delta.v ELSE <<>>)
         \o FragmentsOf(Tail(evs))

\* The object a buffer parses to; the empty object when it parses to none.
ParsedObject(buf) ==
    LET parsed == JsonLoads(buf)
    IN  IF parsed.kind = "dict" THEN parsed.val ELSE {}

\* C2: the arguments of the finalized block for index i are the parse of the
\* concatenation, in arrival order, of the argument fragments received for
\* i, whatever events lie between them.
C2_ArgumentsAreParsedConcatenation ==
    IsBuilt =>
        \A k \in ToolPositions :
            final.content[k].arguments =
                ParsedObject(FragmentsOf(DeltasFor(Reduced, final.content[k].index)))

\* The two fragments of index 0 arrived with a delta of index 1 between
\* them, and the block of index 0 holds both members.
C2_Witness ==
    /\ IsBuilt
    /\ \E k \in ToolPositions :
          /\ final.content[k].index = 0
          /\ final.content[k].arguments = {<<"a", 1>>, <<"b", 2>>}
    /\ \E i, j, k \in 1..finalAt :
          /\ i < j /\ j < k
          /\ log[i] = ToolEv(PyInt(0), PyNone, PyNone, PyFrag(FragOpen))
          /\ log[j].type = "toolcall_delta" /\ log[j].index = PyInt(1)
          /\ log[k] = ToolEv(PyInt(0), PyNone, PyNone, PyFrag(FragClose))

\* C3: the tool-call blocks of the final message are in strictly ascending
\* index order, one per index, and all of them follow the text block.
C3_BlocksAscendByIndex ==
    IsBuilt =>
        /\ \A j, k \in ToolPositions :
              j < k => final.content[j].index < final.content[k].index
        /\ \A j \in TextPositions : \A k \in ToolPositions : j < k

\* Index 2 arrived first, then index 0, then text: the message holds the
\* text block, then index 0, then index 2.
C3_Witness ==
    /\ IsBuilt
    /\ Len(final.content) = 3
    /\ final.content[1].type = "text"
    /\ final.content[2].index = 0
    /\ final.content[3].index = 2
    /\ \E i, j, k \in 1..finalAt :
          /\ i < j /\ j < k
          /\ log[i].type = "toolcall_delta" /\ log[i].index = PyInt(2)
          /\ log[j].type = "toolcall_delta" /\ log[j].index = PyInt(0)
          /\ log[k].type = "text_delta"

-----------------------------------------------------------------------------
\* C4: when the first terminal event is `error`, the final message has stop
\* reason `error` and a non-empty error description, whatever the event's
\* payload (a string, the empty string, none) and whatever preceded it.
C4_ErrorMessageIsPopulated ==
    (final.obj = 1 /\ finalAt > 0 /\ log[finalAt].type = "error") =>
        /\ final.stop_reason = "error"
        /\ final.has_error
        /\ final.error_message # ""

\* The message as read after the step: the usage reference is followed in
\* the new state.
ViewNext == [final' EXCEPT !.usage = usage']

\* C5: once the message is built, a further text_delta, toolcall_delta or
\* usage event leaves every field of it unchanged, usage included.
C5_FinalIsFrozen ==
    [][(IsBuilt /\ final'.obj = final.obj) => ViewNext = View(final)]_vars

\* C6: the message is built once: no later event, and no second terminal
\* event in particular, rebuilds or replaces it.
C6_BuiltOnce ==
    [][IsBuilt => final' = final]_vars

\* C7: result() is idempotent: once it has returned, every later call
\* returns the identical message object, so all the objects it has ever
\* returned are one.
C7_ResultIsIdempotent ==
    Cardinality(returned) <= 1

\* The first non-empty string that field f ("id" or "name") carries in evs.
RECURSIVE FirstNonEmpty(_, _)
FirstNonEmpty(evs, f) ==
    IF evs = <<>> THEN ""
    ELSE IF Head(evs)[f].t = "str" /\ Head(evs)[f].v # "" THEN Head(evs)[f].v
    ELSE FirstNonEmpty(Tail(evs), f)

\* C8: the id and the name of a finalized block are the first non-empty id
\* and name received for its index; a later one does not overwrite them.
C8_FirstIdAndNameWin ==
    IsBuilt =>
        \A k \in ToolPositions :
            LET ds == DeltasFor(Reduced, final.content[k].index)
            IN  /\ FirstNonEmpty(ds, "id") # "" =>
                      final.content[k].id = FirstNonEmpty(ds, "id")
                /\ FirstNonEmpty(ds, "name") # "" =>
                      final.content[k].name = FirstNonEmpty(ds, "name")

\* The reason the terminal event recorded: the reason of a done event when
\* it is one of StopReasons, `error` for an error event, `stop` otherwise
\* (an unknown or missing reason, or a stream finalized without a terminal).
RecordedReason ==
    IF finalAt > 0 /\ log[finalAt].type = "error" THEN "error"
    ELSE IF /\ finalAt > 0
            /\ log[finalAt].type = "done"
            /\ log[finalAt].reason.t = "str"
            /\ log[finalAt].reason.v \in StopReasons
    THEN log[finalAt].reason.v
    ELSE "stop"

\* C9: with a tool-call block and a recorded reason `stop` the final stop
\* reason is `tool_use`; `length`, `error`, `aborted` (and `tool_use`) are
\* kept; without a tool-call block the recorded reason is kept.
C9_StopReasonResolution ==
    IsBuilt =>
        final.stop_reason =
            IF ToolPositions # {} /\ RecordedReason = "stop"
            THEN "tool_use" ELSE RecordedReason

\* A done event with reason `length` after a tool-call delta: the block is
\* there and the reason is still `length`.
C9_Witness ==
    /\ IsBuilt
    /\ ToolPositions # {}
    /\ log[finalAt] = DoneEv(PyStr("length"))
    /\ final.stop_reason = "length"

\* A payload carries counter k / cost k when it is a dict holding a number
\* of the declared kind under that key.
CarriesTok(p, k) == p.isdict /\ p.tok[k].t = "int"

CarriesCost(p, k) == p.isdict /\ p.costdict /\ p.cost[k].t \in {"int", "float"}

\* The value of the most recent usage event of evs carrying the field, or
\* zero.
RECURSIVE LastTok(_, _, _)
LastTok(evs, n, k) ==
    IF n = 0 THEN 0
    ELSE IF evs[n].type = "usage" /\ CarriesTok(evs[n].usage, k)
         THEN evs[n].usage.tok[k].v
    ELSE LastTok(evs, n - 1, k)

RECURSIVE LastCost(_, _, _)
LastCost(evs, n, k) ==
    IF n = 0 THEN 0
    ELSE IF evs[n].type = "usage" /\ CarriesCost(evs[n].usage, k)
         THEN (IF evs[n].usage.cost[k].t = "int"
               THEN 100 * evs[n].usage.cost[k].v
               ELSE evs[n].usage.cost[k].v)
    ELSE LastCost(evs, n - 1, k)

\* The pairs of payloads that set disjoint fields.
DisjointPairs ==
    {pq \in UsagePayloads \X UsagePayloads :
        /\ \A k \in TokenKeys : ~(CarriesTok(pq[1], k) /\ CarriesTok(pq[2], k))
        /\ \A k \in CostKeys : ~(CarriesCost(pq[1], k) /\ CarriesCost(pq[2], k))}

\* C10: every counter and every cost of the usage is the value of the most
\* recent usage event that carried it, or zero; the message built from it
\* reads the same; merging two payloads with disjoint fields gives the same
\* usage in either order.
C10_UsageIsLastWriterPerField ==
    /\ \A k \in TokenKeys : usage.tok[k] = LastTok(log, Len(log), k)
    /\ \A k \in CostKeys : usage.cost[k] = LastCost(log, Len(log), k)
    /\ (IsBuilt /\ finalAt = Len(log)) =>
          /\ \A k \in TokenKeys : View(final).usage.tok[k] = LastTok(log, finalAt, k)
          /\ \A k \in CostKeys : View(final).usage.cost[k] = LastCost(log, finalAt, k)
    /\ \A pq \in DisjointPairs :
          MergeUsage(MergeUsage(usage, pq[1]), pq[2])
              = MergeUsage(MergeUsage(usage, pq[2]), pq[1])

\* {input: 1} and {cache_read: 3} arrived in two events, a third event set a
\* cost, and the message built after them holds all three.
C10_Witness ==
    /\ IsBuilt
    /\ finalAt = Len(log)
    /\ View(final).usage.tok["input"] = 1
    /\ View(final).usage.tok["cache_read"] = 3
    /\ View(final).usage.cost["input"] = 100
    /\ Cardinality({i \in 1..Len(log) : log[i].type = "usage"}) = 3

-----------------------------------------------------------------------------
\* No done and no error event has been reduced.
NoTerminalInLog == \A i \in 1..Len(log) : log[i].type \notin {"done", "error"}

\* C11: a stream whose sequence ends without done or error is finalized by
\* result() as an implicit done: result() never returns None, the message
\* has the content the deltas give, no error and stop reason `stop`
\* (`tool_use` with tool calls); with zero events the content is empty, the
\* usage all zero and the stop reason `stop`.
C11_ImplicitDone ==
    /\ 0 \notin returned
    /\ (pc = "idle" /\ exhausted /\ returned # {}) => IsBuilt
    /\ (IsBuilt /\ NoTerminalInLog) =>
          /\ finalAt = Len(log)
          /\ final.obj \in returned
          /\ ~final.has_error
          /\ final.stop_reason = IF ToolPositions # {} THEN "tool_use" ELSE "stop"
          /\ TextPositions = IF DeltasOf(log) # "" THEN {1} ELSE {}
    /\ (IsBuilt /\ log = <<>>) =>
          /\ final.content = <<>>
          /\ View(final).usage = ZeroUsage
          /\ final.stop_reason = "stop"

\* result() has returned the message of a stream that produced no event.
C11_Witness ==
    /\ log = <<>>
    /\ exhausted
    /\ pc = "idle"
    /\ IsBuilt
    /\ returned = {final.obj}

\* The indices that received at least one tool-call delta in evs.
IndicesIn(evs) ==
    {evs[i].index.v : i \in {j \in 1..Len(evs) :
        evs[j].type = "toolcall_delta" /\ evs[j].index.t = "int"}}

\* Some delta of evs carries a non-empty string in field f.
Received(evs, f) == \E i \in 1..Len(evs) : evs[i][f].t = "str" /\ evs[i][f].v # ""

\* C12: the content holds exactly one tool-call block for every index that
\* received a delta (even one carrying nothing, even when its buffer does not
\* parse); a block whose index received no id has the id `toolcall:<index>`,
\* one that received no name the name `unknown`.
C12_OneBlockPerIndex ==
    IsBuilt =>
        /\ {final.content[k].index : k \in ToolPositions} = IndicesIn(Reduced)
        /\ Cardinality(ToolPositions) = Cardinality(IndicesIn(Reduced))
        /\ \A k \in ToolPositions :
              LET i == final.content[k].index
                  ds == DeltasFor(Reduced, i)
              IN  /\ ~Received(ds, "id") =>
                        final.content[k].id = "toolcall:" \o ToString(i)
                  /\ ~Received(ds, "name") => final.content[k].name = "unknown"

\* Index 3 received one delta carrying nothing and index 0 an unterminated
\* buffer: both have their block, index 3 with the fallback id and name.
C12_Witness ==
    /\ IsBuilt
    /\ IndicesIn(Reduced) = {0, 3}
    /\ Len(final.content) = 2
    /\ final.content[2].id = "toolcall:3"
    /\ final.content[2].name = "unknown"
    /\ final.content[1].id = "c1"

\* The buffer of index i in evs is empty, unparseable or no object.
Malformed(evs, i) == JsonLoads(FragmentsOf(DeltasFor(evs, i))).kind # "dict"

\* C13: finalization does not fail on malformed arguments: every terminal
\* event builds the message; a block whose buffer is empty, unparseable or
\* no object has the empty object as arguments and the id and name received;
\* the other tool-call blocks and the text block are as without it.
C13_MalformedArgumentsGiveEmptyObject ==
    /\ (~NoTerminalInLog) => IsBuilt
    /\ IsBuilt =>
          /\ \A k \in ToolPositions :
                LET i == final.content[k].index
                    ds == DeltasFor(Reduced, i)
                IN  /\ Malformed(Reduced, i) => final.content[k].arguments = {}
                    /\ ~Malformed(Reduced, i) =>
                          final.content[k].arguments = JsonLoads(FragmentsOf(ds)).val
                    /\ (i = 0 /\ Received(ds, "id")) => final.content[k].id = "c1"
                    /\ (i = 0 /\ Received(ds, "name")) => final.content[k].name = "add"
                    /\ (i = 2 /\ Received(ds, "id")) => final.content[k].id = "c2"
                    /\ (i = 1 /\ Received(ds, "name")) => final.content[k].name = "sub"
          /\ TextPositions = IF DeltasOf(Reduced) # "" THEN {1} ELSE {}
          /\ \A k \in TextPositions : final.content[k].text = DeltasOf(Reduced)

\* An unterminated buffer for index 0, a well-formed one for index 1 and
\* text: three blocks, index 0 with {} and its id and name, index 1 parsed.
C13_Witness ==
    /\ IsBuilt
    /\ Len(final.content) = 3
    /\ final.content[1].text = "x"
    /\ final.content[2].index = 0
    /\ final.content[2].arguments = {}
    /\ final.content[2].id = "c1"
    /\ final.content[2].name = "add"
    /\ FragmentsOf(DeltasFor(Reduced, 0)) = FragOpen
    /\ final.content[3].arguments = {<<"a", 1>>}

-----------------------------------------------------------------------------
(* Claims about the OpenAI-compatible adapter *)

\* The positions of the terminal events (done, error) the adapter produced.
TerminalPositions == {i \in 1..Len(log) : log[i].type \in {"done", "error"}}

\* C14: on every path of the adapter the produced sequence starts with
\* exactly one start event, and holds exactly one terminal event, which is
\* the last event ever produced: no event follows a terminal one, and a
\* sequence that has ended holds one.
C14_OneTerminalEventLast ==
    /\ Len(log) > 0 => log[1].type = "start"
    /\ \A i \in 2..Len(log) : log[i].type # "start"
    /\ \A i \in TerminalPositions : i = Len(log)
    /\ exhausted => TerminalPositions # {}

\* The response has a status that is not 2xx, or the transport has raised.
HttpFailure == (status # 0 /\ status \notin 200..299) \/ faulted

\* C15: every HTTP-level failure (a status that is not 2xx, a transport
\* fault) is reported as a single error event that ends the sequence, and no
\* exception leaves the adapter's sequence.
C15_FailureIsOneErrorEvent ==
    HttpFailure =>
        /\ raised = "none"
        /\ exhausted =>
              {i \in 1..Len(log) : log[i].type = "error"} = {Len(log)}

\* A data frame whose payload is not valid JSON, is valid JSON but no object,
\* or is an object whose choices/delta entries have the wrong shape.
MalformedFrame(f) ==
    /\ f.line = "data"
    /\ \/ f.data \in {"badjson", "nonobject"}
       \/ f.data = "object" /\ f.choices = "badshape"

\* The events of the well-formed frames of fs, in order.
RECURSIVE WellFormedEvents(_)
WellFormedEvents(fs) ==
    IF fs = <<>> THEN <<>>
    ELSE (IF MalformedFrame(Head(fs)) THEN <<>> ELSE DecodeFrame(Head(fs)).events)
         \o WellFormedEvents(Tail(fs))

IsContentEvent(ev) == ev.type \in {"text_delta", "toolcall_delta", "usage"}

\* C16: a malformed frame never aborts the adapter's stream: it produces no
\* event and decoding continues, so that once the lines read so far are
\* decoded the events produced are those of the well-formed ones, in order.
C16_MalformedFramesAreSkipped ==
    /\ raised = "none"
    /\ (\E i \in 1..Len(frames) : MalformedFrame(frames[i])) =>
          (outbox = <<>> /\ ~frame_raises =>
              SelectSeq(log, IsContentEvent) = WellFormedEvents(frames))

\* The positions of the done events the adapter produced.
DonePositions == {i \in 1..Len(log) : log[i].type = "done"}

\* A toolcall_delta event was produced before position i.
DeltaProducedBefore(i) == \E j \in 1..(i - 1) : log[j].type = "toolcall_delta"

\* A line with a choices entry carried a tool-finish signal.
SignalObserved ==
    \E k \in 1..Len(frames) :
        /\ frames[k].data = "object" /\ frames[k].choices = "list"
        /\ ToolFinish(frames[k].finish_reason)

\* A line with a choices entry carried a non-empty tool_calls list.
ToolCallsListObserved ==
    \E k \in 1..Len(frames) :
        /\ frames[k].data = "object" /\ frames[k].choices = "list"
        /\ Len(frames[k].tool_calls) > 0

\* The stream ended with the sentinel.
SentinelSeen == \E k \in 1..Len(frames) : frames[k] = DoneLine

\* C17 as stated: the reason of the adapter's done event is tool_use iff a
\* toolcall_delta event was produced or a tool-finish signal was observed,
\* and stop otherwise.
C17_ToolUseIffDeltaProduced ==
    \A i \in DonePositions :
        log[i].reason = PyStr(IF DeltaProducedBefore(i) \/ SignalObserved
                              THEN "tool_use" ELSE "stop")

\* C17, amended: the reason of the adapter's done event is tool_use iff some
\* frame's delta carried a non-empty tool_calls list -- whether or not one of
\* its elements produced a toolcall_delta event -- or a tool-finish signal
\* was observed, and stop otherwise, with the sentinel and without it.
C17_ToolUseIffToolCallsObserved ==
    \A i \in DonePositions :
        log[i].reason = PyStr(IF ToolCallsListObserved \/ SignalObserved
                              THEN "tool_use" ELSE "stop")

\* A done event with reason tool_use although no toolcall_delta event was
\* produced and no tool-finish signal observed, on a stream that closed
\* without the sentinel.
C17_Witness ==
    \E i \in DonePositions :
        /\ log[i].reason = PyStr("tool_use")
        /\ ~DeltaProducedBefore(i)
        /\ ~SignalObserved
        /\ ~SentinelSeen
        /\ exhausted

VendorFields == {"prompt_tokens", "completion_tokens", "cost"}

Reports(f, field) ==
    /\ f.line = "data" /\ f.data = "object" /\ f.usage.present
    /\ IF field = "cost" THEN IsNumber(f.usage[field]) ELSE IsInt(f.usage[field])

\* The value of the last frame of fs that reports field, as the message
\* holds it (a cost in hundredths).
LastReported(fs, field) ==
    LET i == CHOOSE i \in 1..Len(fs) :
                 /\ Reports(fs[i], field)
                 /\ \A j \in (i + 1)..Len(fs) : ~Reports(fs[j], field)
    IN  IF field = "cost" THEN ToFloat(fs[i].usage[field]) ELSE fs[i].usage[field].v

Retained(u, field) ==
    CASE field = "prompt_tokens" -> u.tok["input"]
      [] field = "completion_tokens" -> u.tok["output"]
      [] field = "cost" -> u.cost["total"]

\* C19: when the vendor splits its usage report over several frames, the
\* final message retains every value reported in any frame: each field holds
\* the value of the last frame that reported it.
C19_SplitUsageIsRetained ==
    IsBuilt =>
        \A field \in VendorFields :
            (\E i \in 1..Len(frames) : Reports(frames[i], field)) =>
                Retained(View(final).usage, field) = LastReported(frames, field)

-----------------------------------------------------------------------------
(* Claims about two assemblers *)

\* The usage record the events evs leave in an assembler's record u.
RECURSIVE UsageAfter(_, _)
UsageAfter(u, evs) ==
    IF evs = <<>> THEN u
    ELSE UsageAfter(IF Head(evs).type = "usage" THEN MergeUsage(u, Head(evs).usage)
                    ELSE u, Tail(evs))

\* What the first assembler holds, and what a holder of its message reads.
OwnState == <<text, tool_calls, usage, final, View(final)>>

\* The same of the second assembler.
PeerState ==
    <<peer.text, peer.tool_calls, UsageCell(peer.usage_obj), peer.final,
      [peer.final EXCEPT !.usage = UsageCell(peer.usage_obj)]>>

\* C20: two assemblers share no mutable state: their usage records are two
\* objects, a reduction step of one leaves the text, tool-call accumulators,
\* usage and final message of the other as they are, and the usage of each
\* is the one its own events give.
C20_NoSharedMutableState ==
    /\ [](/\ peer.usage_obj # ZeroUsageObject(1)
          /\ usage = UsageAfter(ZeroUsage, log)
          /\ UsageCell(peer.usage_obj) = UsageAfter(ZeroUsage, peer.log)
          /\ text = DeltasOf(log)
          /\ peer.text = DeltasOf(peer.log))
    /\ [][/\ peer.log' # peer.log => OwnState' = OwnState
          /\ log' # log => PeerState' = PeerState]_vars

\* Both assemblers have reduced events of their own, in an interleaving
\* where the second one's usage event came between two events of the first,
\* both have built their message, and the two hold different usage.
C20_Witness ==
    /\ IsBuilt
    /\ peer.final.obj # 0
    /\ Len(log) = 2 /\ log[1].type = "text_delta"
    /\ Len(peer.log) = 2 /\ peer.log[1].type = "usage"
    /\ usage = ZeroUsage
    /\ peer.usage # ZeroUsage

\* The lines read that carry a usage object, and the usage events produced.
CarriesUsage(f) == f.line = "data" /\ f.data = "object" /\ f.usage.present

IsUsageEvent(ev) == ev.type = "usage"

\* tokens / 1,000,000 x price of one side, in hundredths; 0 without a price.
SideCost(tokens, price) ==
    IF IsNumber(price) /\ IsInt(tokens)
    THEN (tokens.v * ToFloat(price)) \div 1000000 ELSE 0

\* C21: in the adapter's usage event a cost total the vendor reported is
\* carried through verbatim, an explicit zero included, with or without
\* prices in the options; the price-based fallback is applied only when the
\* vendor reported no cost field.
C21_ExplicitCostIsVerbatim ==
    LET fs == SelectSeq(frames, CarriesUsage)
        evs == SelectSeq(log, IsUsageEvent)
    IN  \A k \in 1..Len(evs) :
            LET u == fs[k].usage
                total == evs[k].usage.cost["total"]
            IN  IF IsNumber(u.cost) THEN total = PyFloat(ToFloat(u.cost))
                ELSE total = PyFloat(SideCost(u.prompt_tokens, pricing_in)
                                     + SideCost(u.completion_tokens, pricing_out))

-----------------------------------------------------------------------------
(* Claims about the closed set of stop reasons *)

-----------------------------------------------------------------------------
(* Claims about the request *)

TranslatedRoles == {"user", "assistant", "toolResult"}

IsTranslated(msg) == msg.role \in TranslatedRoles

\* The texts of the text blocks of blocks, in order, from the last one back.
RECURSIVE TextOnly(_)
TextOnly(blocks) ==
    IF blocks = <<>> THEN ""
    ELSE LET n == Len(blocks)
         IN  TextOnly(SubSeq(blocks, 1, n - 1))
             \o (IF blocks[n].type = "text" THEN blocks[n].text ELSE "")

\* C23: message translation preserves order and drops tool-call content:
\* the vendor list is an optional system entry followed by one entry per
\* user, assistant and tool-result message, in history order; an assistant
\* entry's content is the concatenation of its text blocks only, a
\* tool-result entry has role tool, the tool_call_id and the joined text.
C23_TranslationKeepsOrderAndText ==
    request.built =>
        LET kept == SelectSeq(request.context.messages, IsTranslated)
            off == IF request.context.system_prompt # "" THEN 1 ELSE 0
            out == request.messages
        IN  /\ Len(out) = off + Len(kept)
            /\ off = 1 => out[1] = [role |-> "system",
                                    content |-> request.context.system_prompt]
            /\ \A i \in 1..Len(kept) :
                  LET m == kept[i]
                      e == out[off + i]
                  IN  CASE m.role = "user" ->
                               e = [role |-> "user", content |-> m.content]
                        [] m.role = "assistant" ->
                               e = [role |-> "assistant", content |-> TextOnly(m.blocks)]
                        [] m.role = "toolResult" ->
                               /\ e.role = "tool"
                               /\ e.tool_call_id = m.tool_call_id
                               /\ e.content = TextOnly(m.blocks)

\* A payload built from a system prompt, an assistant message with text and
\* tool-call blocks, a message of another role and a tool result.
C23_Witness ==
    /\ request.built
    /\ request.context.system_prompt = "sys"
    /\ Len(request.context.messages) = 3
    /\ request.context.messages[1].role = "assistant"
    /\ Len(request.context.messages[1].blocks) = 3
    /\ request.context.messages[2].role = "developer"
    /\ request.context.messages[3].role = "toolResult"
    /\ Len(request.messages) = 3
    /\ request.messages[2].content = "ab"
    /\ request.messages[3].content = "rs"

-----------------------------------------------------------------------------
(* Claims about iteration and result() together *)

\* The last event returned by __anext__ is a terminal one.
LastIsTerminal == log # <<>> /\ log[Len(log)].type \in {"done", "error"}

\* C24: iterating the assembler passes events through unchanged: each event
\* gen() yields answers the one pending __anext__ call, in producer order,
\* with its reduction done when it is returned; so after a done or error
\* event result() returns the final message and pulls nothing.
C24_PassThrough ==
    /\ [](LastIsTerminal /\ ~awaiting => IsBuilt /\ finalAt = Len(log))
    /\ [][/\ log' # log =>
               /\ awaiting /\ ~awaiting'
               /\ pc' = pc
               /\ Len(log') = Len(log) + 1
               /\ SubSeq(log', 1, Len(log)) = log
               /\ outbox # <<>> =>
                     log'[Len(log')] = Head(outbox) /\ outbox' = Tail(outbox)
               /\ LET e == log'[Len(log')]
                  IN  CASE e.type = "text_delta" -> text' = text \o e.delta.v
                        [] e.type = "toolcall_delta" ->
                              e.index.v \in DOMAIN tool_calls'
                        [] e.type \in {"done", "error"} ->
                              final'.obj = final.obj + 1 /\ finalAt' = Len(log')
                        [] OTHER -> TRUE
          /\ (LastIsTerminal /\ pc = "idle" /\ ~awaiting) =>
               /\ pc' = "idle"
               /\ returned' # returned =>
                     /\ returned' = returned \cup {final.obj}
                     /\ log' = log
                     /\ awaiting' = awaiting
                     /\ final' = final]_vars

\* The consumer iterated a text event and the done event itself, called
\* result() at once and got the message, gen() still standing at its done.
C24_Witness ==
    /\ LastIsTerminal
    /\ log[Len(log)].type = "done"
    /\ \E i \in 1..Len(log) : log[i].type = "text_delta"
    /\ gen = "at_terminal"
    /\ ~awaiting
    /\ pc = "idle"
    /\ final.obj \in returned

\* evs ends in its one terminal event.
OneTerminalLast(evs) ==
    /\ evs # <<>>
    /\ \A i \in 1..Len(evs) : evs[i].type \in {"done", "error"} <=> i = Len(evs)

\* C25: the final message does not depend on how consumption is split: for
\* an event sequence ending in its one terminal event, the message result()
\* returned -- called at once, after any prefix the consumer iterated, or
\* after all of it -- has the content, usage, stop reason and error
\* description of the message of a stream whose consumer iterated it all.
C25_SplitIndependence ==
    (OneTerminalLast(log) /\ peer.log = log /\ final.obj \in returned) =>
        /\ final.content = peer.final.content
        /\ View(final).usage = UsageCell(peer.usage_obj)
        /\ final.stop_reason = peer.final.stop_reason
        /\ final.has_error = peer.final.has_error
        /\ final.error_message = peer.final.error_message

\* result() drained a text event, a tool call and the done event itself and
\* returned at the end of the sequence; the other stream iterated them.
C25_Witness ==
    /\ OneTerminalLast(log)
    /\ peer.log = log
    /\ Len(log) = 3
    /\ log[1].type = "text_delta"
    /\ log[2].type = "toolcall_delta"
    /\ exhausted
    /\ final.obj \in returned
    /\ final.stop_reason = "tool_use"

-----------------------------------------------------------------------------
(* Claims about the reasons the adapter gives *)

\* A line with a choices entry carried the finish_reason r.
FinishObserved(r) ==
    \E k \in 1..Len(frames) :
        /\ frames[k].data = "object" /\ frames[k].choices = "list"
        /\ frames[k].finish_reason = PyStr(r)

\* C26: the adapter's done event only ever carries the reason stop or
\* tool_use: a vendor finish_reason of length is recorded and never
\* propagated, so that a final message assembled from the adapter without an
\* error event has stop reason stop or tool_use.
C26_DoneIsStopOrToolUse ==
    /\ \A i \in DonePositions : log[i].reason \in {PyStr("stop"), PyStr("tool_use")}
    /\ FinishObserved("length") => finish_reason_seen # PyNone
    /\ (IsBuilt /\ \A i \in 1..Len(log) : log[i].type # "error") =>
          final.stop_reason \in {"stop", "tool_use"}

\* The vendor finished with length, the stream closed without the sentinel,
\* and the message was built with stop reason stop.
C26_Witness ==
    /\ FinishObserved("length")
    /\ finish_reason_seen = PyStr("length")
    /\ ~SentinelSeen
    /\ DonePositions # {}
    /\ exhausted
    /\ IsBuilt
    /\ final.stop_reason = "stop"
    /\ \A i \in 1..Len(log) : log[i].type # "error"

====
